---- MODULE Spec2Model ----
(***************************************************************************)
(* A model of the catchbot game loop of src/game.js: the difficulty        *)
(* controller (intellect), the item spawner with its pity timer, the       *)
(* bonus ("fish") projectile, the per-frame update and the pause/restart   *)
(* buttons.                                                                *)
(*                                                                         *)
(* Numbers.  The code computes in IEEE doubles; the model computes the     *)
(* same expressions exactly, in fixed point:                               *)
(*   - intervals (spawnInterval, bestDifficultyInterval) are held in       *)
(*     units of 1/75 ms, so the steps 0.96 and 0.08 are 72 and 6 and the   *)
(*     score cap of relaxationCeiling is an integer for every score;       *)
(*   - velocities are held in units of 1/12 px/s and positions in units of *)
(*     1/720 px, so GRAVITY * dt * dt and v * dt with dt = delta / 60 are  *)
(*     integers for every integer delta;                                   *)
(*   - the phase time t of the bonus projectile is held in units of        *)
(*     1/1386, so dt / 1.1 and dt / 1.05 are 21 * delta and 22 * delta.    *)
(* Clock values (performance.now(), lastSpawnTime, nextFishAt) are in ms.  *)
(*                                                                         *)
(* Geometry that depends on the loaded textures (the bounds of robotCart,  *)
(* the height of the stand) is not in the source: the results of the two   *)
(* hit tests are inputs of the frame, chosen freely.                       *)
(***************************************************************************)
EXTENDS Integers, Sequences, FiniteSets, TLC

\* The value null of activeFish, as a record so that it compares with one.
Null == [phase |-> "null", t |-> 0]

Min(a, b) == IF a <= b THEN a ELSE b
Max(a, b) == IF a >= b THEN a ELSE b

\* An interval of x milliseconds in the fixed-point unit of 1/75 ms.
Ms(x) == x * 75

-----------------------------------------------------------------------------
(* Program constants, src/game.js:6-33 and 71-79 *)

BASE_WIDTH == 1314
BASE_HEIGHT == 768
GRAVITY == 2100
MAX_MISSES == 5
FISH_UNLOCK_SCORE == 300
FISH_INTERVAL_MIN == 7000
FISH_INTERVAL_RANGE == 5000
MAGIC_COUNTDOWN == 30

minInterval == 250
maxInterval == 2500
waveRelaxationBoost == 120
fishRelaxationBoost == 200
relaxationHeadroom == 200
minimumRelaxationCap == 900
relaxationTighteningScore == 120
relaxationEntryEpsilon == 20
waveScoreStep == 25

\* spawnInterval and intellect.bestDifficultyInterval at buildScene, in ms.
InitialInterval == 2000
\* The regime threshold of intellect.trigger, in ms.
RegimeThreshold == 500
\* The two tightening steps 0.96 ms and 0.08 ms, in units of 1/75 ms.
LargeStep == 72
SmallStep == 6
\* LAUNCH = { dx: 240, dy: 260 }
LAUNCH_dx == 240
LAUNCH_dy == 260
\* Score of a catch and penalty of a bonus mis-catch.
CatchScore == 10
FishPenalty == 500
\* The miss line is BASE_HEIGHT + 120.
MissMargin == 120

\* SPAWN_POINTS, indexed from 1.
SPAWN_POINTS ==
  << [x |-> 62, y |-> 530, dir |-> 1],
     [x |-> 92, y |-> 344, dir |-> 1],
     [x |-> BASE_WIDTH - 62, y |-> 530, dir |-> -1],
     [x |-> BASE_WIDTH - 92, y |-> 344, dir |-> -1] >>

-----------------------------------------------------------------------------
(* Bounds of the model *)

\* Open play (Spec): the clock stops at OpenHorizon ms.
OpenHorizon == 20000
\* A frame that would leave more than MaxItems items in the array is not taken.
MaxItems == 2
\* Presses of the replay button in one behaviour.
MaxRestarts == 1
\* Waits (time passing with the ticker stopped) in one behaviour.
MaxWaits == 1
\* Frames run after the game has ended, until a restart.
MaxOverFrames == 1
\* After a restart or a wait the clock advances by at most Aftermath ms more.
Aftermath == 5000
\* Rehearsed play (SpecFish): the score up to which the play is rehearsed, the
\* items in the air before the first catch, the time of free play that
\* follows, and the clock value at which it all stops.
RehearsedScore == 290
OpeningItems == 4
FishWindow == 15000
FishHorizon == 120000
\* Crowded play (SpecPity): the misses made first, the Standard items in the
\* air before the magic roll may succeed, the items in the air in all, the time
\* of play that follows, and the clock value at which it all stops.
PityMisses == 2
CrowdLead == 30
CrowdSize == 61
PityWindow == 2500
PityHorizon == 200000
\* Play with a clock that may run backwards (SpecRewind): the clock value at
\* which it stops.
RewindHorizon == 12500

-----------------------------------------------------------------------------
(* The difficulty controller: the object intellect.  A world w is a record  *)
(* of the module-level variables of game.js: w.gameState, w.intellect,     *)
(* w.items, w.activeFish, w.nextFishAt, w.fishWindowClosed, w.fishSprites  *)
(* (the fish sprites that are children of gameContainer), w.localBest (the *)
(* value stored under BEST_KEY), w.log (the calls made by the running      *)
(* operation, each with the state before and after it) and w.owed.         *)
(* w.owed is what the pity timer owes: for every state passed since the    *)
(* last miss, Recovery catch or restart in which misses > 0, the number    *)
(* magicCountdown had in that state minus the Standard catches made since. *)

\* What a log entry records of the state; live is the length of items.
Snap(w) ==
  [ score |-> w.gameState.score,
    misses |-> w.gameState.misses,
    best |-> w.gameState.best,
    spawnInterval |-> w.gameState.spawnInterval,
    magicCountdown |-> w.gameState.magicCountdown,
    forceMagic |-> w.gameState.forceMagic,
    playing |-> w.gameState.playing,
    fishUnlocked |-> w.gameState.fishUnlocked,
    intellect |-> w.intellect,
    live |-> Len(w.items),
    activeFish |-> w.activeFish,
    nextFishAt |-> w.nextFishAt,
    fishWindowClosed |-> w.fishWindowClosed,
    localBest |-> w.localBest,
    owed |-> w.owed ]

\* w1 with one more log entry: the call op (of the given kind) took w0 to w1.
Logged(w0, w1, op, kind) ==
  [w1 EXCEPT !.log = Append(@, [op |-> op, kind |-> kind,
                                pre |-> Snap(w0), post |-> Snap(w1)])]

\* intellect.reset(spawnInterval)
reset(w, spawnInterval) ==
  [w EXCEPT !.intellect =
     [ nextRelaxationScore |-> waveScoreStep,
       pendingRelaxations |-> 0,
       bestDifficultyInterval |-> spawnInterval ]]

\* intellect.relaxationCeiling(): reads gameState.score.
relaxationCeiling(w) ==
  LET capped == Min(w.gameState.score, relaxationTighteningScore)
      scoreCap == Ms(maxInterval)
                  - (Ms(maxInterval - minimumRelaxationCap) * capped)
                    \div relaxationTighteningScore
      progressCap == Max(Ms(minInterval),
                         w.intellect.bestDifficultyInterval + Ms(relaxationHeadroom))
  IN  Min(scoreCap, progressCap)

\* w1 with one more log entry: the relaxation step op took w0 to w1 and the
\* interval from before to after; ceiling is relaxationCeiling() as op read it.
Eased(w0, w1, op, before, after) ==
  [w1 EXCEPT !.log = Append(@, [op |-> op, kind |-> "fired",
                                pre |-> Snap(w0), post |-> Snap(w1),
                                before |-> before,
                                ceiling |-> relaxationCeiling(w0),
                                after |-> after])]

\* intellect.maybeRelax, its last three statements: the interval becomes after.
granted(w, spawnInterval, after) ==
  [ w |-> Eased(w,
                [w EXCEPT !.intellect.nextRelaxationScore = @ + waveScoreStep,
                          !.intellect.pendingRelaxations = @ + 1],
                "maybeRelax", spawnInterval, after),
    spawnInterval |-> after ]

\* maybeRelax without the test of score against nextRelaxationScore.
maybeRelax_noScoreTest(w, spawnInterval, score) ==
  IF spawnInterval > w.intellect.bestDifficultyInterval + Ms(relaxationEntryEpsilon)
    THEN [w |-> w, spawnInterval |-> spawnInterval]
  ELSE granted(w, spawnInterval,
               Max(spawnInterval,
                   Min(relaxationCeiling(w), spawnInterval + Ms(waveRelaxationBoost))))

\* maybeRelax without the Math.min(this.relaxationCeiling(), eased).
maybeRelax_uncapped(w, spawnInterval, score) ==
  IF score < w.intellect.nextRelaxationScore
    THEN [w |-> w, spawnInterval |-> spawnInterval]
  ELSE IF spawnInterval > w.intellect.bestDifficultyInterval + Ms(relaxationEntryEpsilon)
    THEN [w |-> w, spawnInterval |-> spawnInterval]
  ELSE granted(w, spawnInterval,
               Max(spawnInterval, spawnInterval + Ms(waveRelaxationBoost)))

\* intellect.maybeRelax(spawnInterval, score): the world and the interval returned.
maybeRelax(w, spawnInterval, score) ==
  IF score < w.intellect.nextRelaxationScore
    THEN [w |-> w, spawnInterval |-> spawnInterval]
  ELSE IF spawnInterval > w.intellect.bestDifficultyInterval + Ms(relaxationEntryEpsilon)
    THEN [w |-> w, spawnInterval |-> spawnInterval]
  ELSE granted(w, spawnInterval,
               Max(spawnInterval,
                   Min(relaxationCeiling(w), spawnInterval + Ms(waveRelaxationBoost))))

\* The tightening step with Math.min where the code has Math.max.
tighten_floorAsMin(si0) ==
  IF si0 > Ms(RegimeThreshold)
    THEN Min(Ms(minInterval), si0 - LargeStep)
    ELSE Min(Ms(minInterval), si0 - SmallStep)

\* intellect.trigger, the tightening step of the interval si0.
tighten(si0) ==
  IF si0 > Ms(RegimeThreshold)
    THEN Max(Ms(minInterval), si0 - LargeStep)
    ELSE Max(Ms(minInterval), si0 - SmallStep)

\* adopt without the update of bestDifficultyInterval.
adopt_stale(w, r) ==
  Logged(w,
         [r.w EXCEPT !.gameState.spawnInterval = r.spawnInterval],
         "trigger",
         IF r.w.intellect.pendingRelaxations > w.intellect.pendingRelaxations
           THEN "relaxed" ELSE "tightened")

\* adopt without the Math.min of the running minimum.
adopt_noMin(w, r) ==
  Logged(w,
         [r.w EXCEPT !.intellect.bestDifficultyInterval = r.spawnInterval,
                     !.gameState.spawnInterval = r.spawnInterval],
         "trigger",
         IF r.w.intellect.pendingRelaxations > w.intellect.pendingRelaxations
           THEN "relaxed" ELSE "tightened")

\* intellect.trigger, after maybeRelax has returned r.
adopt(w, r) ==
  Logged(w,
         [r.w EXCEPT !.intellect.bestDifficultyInterval = Min(@, r.spawnInterval),
                     !.gameState.spawnInterval = r.spawnInterval],
         "trigger",
         IF r.w.intellect.pendingRelaxations > w.intellect.pendingRelaxations
           THEN "relaxed" ELSE "tightened")

\* intellect.trigger(gameState)
trigger(w) ==
  adopt(w, maybeRelax(w, tighten(w.gameState.spawnInterval), w.gameState.score))

\* intellect.applyFishRelaxation(gameState)
applyFishRelaxation(w) ==
  IF w.gameState.spawnInterval
       > w.intellect.bestDifficultyInterval + Ms(relaxationEntryEpsilon)
    THEN Logged(w, w, "applyFishRelaxation", "skipped")
  ELSE
    LET boosted == w.gameState.spawnInterval + Ms(fishRelaxationBoost)
        capped == Min(relaxationCeiling(w), boosted)
    IN  Eased(w, [w EXCEPT !.gameState.spawnInterval = Max(@, capped)],
              "applyFishRelaxation",
              w.gameState.spawnInterval,
              Max(w.gameState.spawnInterval, capped))

-----------------------------------------------------------------------------
(* The pity timer and the item handlers *)

\* requestMagicGuarantee without gameState.forceMagic = false.
requestMagicGuarantee_keepsFlag(w) ==
  IF w.gameState.misses > 0
    THEN [w EXCEPT !.gameState.magicCountdown = MAGIC_COUNTDOWN]
    ELSE [w EXCEPT !.gameState.magicCountdown = 0]

\* requestMagicGuarantee()
requestMagicGuarantee(w) ==
  IF w.gameState.misses > 0
    THEN [w EXCEPT !.gameState.magicCountdown = MAGIC_COUNTDOWN,
                   !.gameState.forceMagic = FALSE]
    ELSE [w EXCEPT !.gameState.magicCountdown = 0]

\* nextSpawnType whose first test does not read gameState.misses.
nextSpawnType_forcedAlways(w, roll) ==
  IF w.gameState.forceMagic
    THEN [ w |-> [w EXCEPT !.gameState.forceMagic = FALSE,
                           !.gameState.magicCountdown = MAGIC_COUNTDOWN],
           type |-> "magic", forced |-> TRUE ]
  ELSE IF w.gameState.misses > 0 /\ roll
    THEN [w |-> w, type |-> "magic", forced |-> FALSE]
  ELSE [w |-> w, type |-> "screw", forced |-> FALSE]

\* nextSpawnType(): roll is the outcome of Math.random() < MAGIC_CHANCE.
nextSpawnType(w, roll) ==
  IF w.gameState.forceMagic /\ w.gameState.misses > 0
    THEN [ w |-> [w EXCEPT !.gameState.forceMagic = FALSE,
                           !.gameState.magicCountdown = MAGIC_COUNTDOWN],
           type |-> "magic", forced |-> TRUE ]
  ELSE IF w.gameState.misses > 0 /\ roll
    THEN [w |-> w, type |-> "magic", forced |-> FALSE]
  ELSE [w |-> w, type |-> "screw", forced |-> FALSE]

\* spawnItem(): point indexes SPAWN_POINTS, jx and jy are the two launch jitters.
spawnItem(w, point, jx, jy, roll) ==
  IF ~w.gameState.playing THEN w
  ELSE
    LET spawn == SPAWN_POINTS[point]
        n == nextSpawnType(w, roll)
        sprite == [ type |-> n.type,
                    x |-> spawn.x * 720,
                    y |-> spawn.y * 720,
                    vx |-> spawn.dir * (LAUNCH_dx + jx) * 12,
                    vy |-> -(LAUNCH_dy + jy) * 12,
                    parent |-> TRUE ]
        w1 == [n.w EXCEPT !.items = Append(@, sprite)]
    IN  Logged(w, w1, "spawnItem", IF n.forced THEN "forced" ELSE n.type)

\* endGame()
endGame(w) ==
  LET w1 == [w EXCEPT !.gameState.playing = FALSE, !.items = << >>]
  IN  Logged(w, w1, "endGame", "over")

-----------------------------------------------------------------------------
(* The pass of update() over the items.  items.forEach iterates over the   *)
(* array object that `items` named when the pass began; endGame() assigns  *)
(* a new array to `items`.  A pass L is the world L.w, the array L.arr     *)
(* being iterated, L.same (does `items` still name that array) and         *)
(* L.thrown (a TypeError left the pass and update()).  The sprites are     *)
(* objects: a sprite detached through `items` is detached in L.arr too.    *)

Sync(L) == [L EXCEPT !.w.items = IF L.same THEN L.arr ELSE @]

\* removeChild(item) for the item at position i, which has a parent.
Detach(L, i) == Sync([L EXCEPT !.arr[i].parent = FALSE])

\* A sequence of sprites, all without a parent.
Orphaned(arr) == [k \in 1..Len(arr) |-> [arr[k] EXCEPT !.parent = FALSE]]

\* The sprites of a sequence that still have a parent, in order.
RECURSIVE WithParent(_)
WithParent(arr) ==
  IF arr = << >> THEN << >>
  ELSE IF Head(arr).parent THEN << Head(arr) >> \o WithParent(Tail(arr))
  ELSE WithParent(Tail(arr))

\* The TypeError of item.parent.removeChild(item) when item.parent is null.
Throw(L, op) ==
  [L EXCEPT !.thrown = TRUE, !.w = Logged(L.w, L.w, "throw", op)]

\* caught whose Recovery branch has no Math.max(0, ...).
caught_unfloored(g, item) ==
  IF item.type = "magic"
    THEN [g EXCEPT !.score = @ + CatchScore,
                   !.misses = @ - 1,
                   !.magicCountdown = MAGIC_COUNTDOWN]
  ELSE IF g.misses > 0
    THEN [g EXCEPT !.score = @ + CatchScore,
                   !.magicCountdown = Max(0, @ - 1),
                   !.forceMagic = IF Max(0, g.magicCountdown - 1) = 0 THEN TRUE ELSE @]
  ELSE [g EXCEPT !.score = @ + CatchScore]

\* caught whose Standard branch never sets forceMagic.
caught_noFlag(g, item) ==
  IF item.type = "magic"
    THEN [g EXCEPT !.score = @ + CatchScore,
                   !.misses = Max(0, @ - 1),
                   !.magicCountdown = MAGIC_COUNTDOWN]
  ELSE IF g.misses > 0
    THEN [g EXCEPT !.score = @ + CatchScore,
                   !.magicCountdown = Max(0, @ - 1)]
  ELSE [g EXCEPT !.score = @ + CatchScore]

\* handleCatch, what the catch of item makes of gameState g.
caught(g, item) ==
  IF item.type = "magic"
    THEN [g EXCEPT !.score = @ + CatchScore,
                   !.misses = Max(0, @ - 1),
                   !.magicCountdown = MAGIC_COUNTDOWN]
  ELSE IF g.misses > 0
    THEN [g EXCEPT !.score = @ + CatchScore,
                   !.magicCountdown = Max(0, @ - 1),
                   !.forceMagic = IF Max(0, g.magicCountdown - 1) = 0 THEN TRUE ELSE @]
  ELSE [g EXCEPT !.score = @ + CatchScore]

\* What the pity timer owes after the catch of item took gameState g to g1.
owes(owed0, g, g1, item) ==
  IF item.type = "magic" \/ g.misses = 0 THEN {}
  ELSE { r - 1 : r \in (owed0 \cup {g.magicCountdown}) \ {0} }
         \cup {g1.magicCountdown}

\* scored without the localStorage.setItem.
scored_unsaved(w, g1, owed1) ==
  IF g1.score > g1.best
    THEN [w EXCEPT !.gameState = [g1 EXCEPT !.best = g1.score],
                   !.owed = owed1]
    ELSE [w EXCEPT !.gameState = g1, !.owed = owed1]

\* handleCatch, the best score: gameState is now g1.
scored(w, g1, owed1) ==
  IF g1.score > g1.best
    THEN [w EXCEPT !.gameState = [g1 EXCEPT !.best = g1.score],
                   !.localBest = g1.score,
                   !.owed = owed1]
    ELSE [w EXCEPT !.gameState = g1, !.owed = owed1]

\* handleCatch, its last statement item.parent.removeChild(item); the world is w2.
removed(L, i, w2) ==
  IF L.arr[i].parent
    THEN [Detach([L EXCEPT !.w = w2], i)
            EXCEPT !.w = Logged(L.w, @, "handleCatch", L.arr[i].type)]
    ELSE Throw([L EXCEPT !.w = Logged(L.w, w2, "handleCatch", L.arr[i].type)],
               "handleCatch")

\* handleCatch(item) for the item at position i of the pass.
handleCatch(L, i) ==
  removed(L, i,
          scored(L.w, caught(L.w.gameState, L.arr[i]),
                 owes(L.w.owed, L.w.gameState,
                      caught(L.w.gameState, L.arr[i]), L.arr[i])))

\* handleMiss, after removeChild left the pass L1 and the miss the world w2.
missed(L1, w2) ==
  IF w2.gameState.misses >= MAX_MISSES
    THEN [ w |-> endGame(w2),
           arr |-> IF L1.same THEN Orphaned(L1.arr) ELSE L1.arr,
           same |-> FALSE,
           thrown |-> L1.thrown ]
    ELSE [L1 EXCEPT !.w = w2]

\* handleMiss(item) for the item at position i of the pass.
handleMiss(L, i) ==
  IF ~L.arr[i].parent THEN Throw(L, "handleMiss")
  ELSE [missed(Detach(L, i),
               requestMagicGuarantee([Detach(L, i).w EXCEPT !.gameState.misses = @ + 1,
                                                            !.owed = {}]))
          EXCEPT !.w = Logged(L.w, @, "handleMiss", L.arr[i].type)]

\* The integration step of the pass for one item, with dt = delta / 60:
\* g = GRAVITY * dt; vy += g * dt; x += vx * dt; y += vy * dt.
integrate(item, delta) ==
  LET vy1 == item.vy + (GRAVITY * delta * delta) \div 300
  IN  [item EXCEPT !.vy = vy1,
                   !.x = @ + item.vx * delta,
                   !.y = @ + vy1 * delta]

\* The pass L1 with one more log entry: the callback has integrated the item
\* at position i and takes it for caught or missed (as); within is withinCart.
classified(L1, i, within, as) ==
  [L1 EXCEPT !.w.log = Append(@, [op |-> "classify", kind |-> as,
                                  pre |-> Snap(L1.w), post |-> Snap(L1.w),
                                  index |-> i, item |-> L1.arr[i],
                                  within |-> within])]

\* forItem without the test item.vy > 0.
forItem_noDescentTest(L, i, delta, within) ==
  LET L1 == Sync([L EXCEPT !.arr[i] = integrate(@, delta)])
      item == L1.arr[i]
  IN  IF within THEN handleCatch(classified(L1, i, within, "caught"), i)
      ELSE IF item.y > (BASE_HEIGHT + MissMargin) * 720
        THEN handleMiss(classified(L1, i, within, "missed"), i)
      ELSE L1

\* The body of the forEach callback for position i; within is withinCart.
forItem(L, i, delta, within) ==
  LET L1 == Sync([L EXCEPT !.arr[i] = integrate(@, delta)])
      item == L1.arr[i]
  IN  IF within /\ item.vy > 0
        THEN handleCatch(classified(L1, i, within, "caught"), i)
      ELSE IF item.y > (BASE_HEIGHT + MissMargin) * 720
        THEN handleMiss(classified(L1, i, within, "missed"), i)
      ELSE L1

\* items.forEach(...) from position i on; cart[k] is withinCart for position k.
RECURSIVE forEach(_, _, _, _)
forEach(L, i, delta, cart) ==
  IF i > Len(L.arr) \/ L.thrown THEN L
  ELSE forEach(forItem(L, i, delta, cart[i]), i + 1, delta, cart)

-----------------------------------------------------------------------------
(* The bonus projectile *)

\* randRange(min, max) for Math.random() = r / 2.
randRange(lo, hi, r) == lo + ((hi - lo) * r) \div 2

\* spawnFish(now): rnd is the Math.random() of the next arrival time.
spawnFish(w, t, rnd) ==
  LET w1 == [w EXCEPT !.fishSprites = @ + 1,
                      !.activeFish = [phase |-> "up", t |-> 0],
                      !.fishWindowClosed = FALSE,
                      !.nextFishAt = t + randRange(FISH_INTERVAL_MIN,
                                       FISH_INTERVAL_MIN + FISH_INTERVAL_RANGE, rnd)]
  IN  Logged(w, w1, "spawnFish", "up")

\* maybeSpawnFish without the test of activeFish.
maybeSpawnFish_unguarded(w, t, rnd) ==
  IF ~w.gameState.fishUnlocked THEN w
  ELSE IF t < w.nextFishAt THEN w
  ELSE spawnFish(w, t, rnd)

\* maybeSpawnFish without the test of gameState.fishUnlocked.
maybeSpawnFish_noUnlockTest(w, t, rnd) ==
  IF w.activeFish # Null THEN w
  ELSE IF t < w.nextFishAt THEN w
  ELSE spawnFish(w, t, rnd)

\* maybeSpawnFish(now)
maybeSpawnFish(w, t, rnd) ==
  IF ~w.gameState.fishUnlocked THEN w
  ELSE IF w.activeFish # Null THEN w
  ELSE IF t < w.nextFishAt THEN w
  ELSE spawnFish(w, t, rnd)

\* disposeFish without the call of requestMagicGuarantee.
disposeFish_noGuarantee(w, hitCart) ==
  IF w.activeFish = Null THEN w
  ELSE
    LET w1 == IF hitCart
                THEN LET a == [w EXCEPT !.gameState.score = Max(0, @ - FishPenalty),
                                        !.gameState.misses = @ + 1,
                                        !.owed = {}]
                         b == applyFishRelaxation(a)
                     IN  IF b.gameState.misses >= MAX_MISSES THEN endGame(b) ELSE b
                ELSE w
        w2 == [w1 EXCEPT !.fishSprites = @ - 1,
                         !.activeFish = Null,
                         !.fishWindowClosed = FALSE]
    IN  Logged(w, w2, "disposeFish", IF hitCart THEN "hit" ELSE "lost")

\* disposeFish(hitCart)
disposeFish(w, hitCart) ==
  IF w.activeFish = Null THEN w
  ELSE
    LET w1 == IF hitCart
                THEN LET a == [w EXCEPT !.gameState.score = Max(0, @ - FishPenalty),
                                        !.gameState.misses = @ + 1,
                                        !.owed = {}]
                         b == applyFishRelaxation(requestMagicGuarantee(a))
                     IN  IF b.gameState.misses >= MAX_MISSES THEN endGame(b) ELSE b
                ELSE w
        w2 == [w1 EXCEPT !.fishSprites = @ - 1,
                         !.activeFish = Null,
                         !.fishWindowClosed = FALSE]
    IN  Logged(w, w2, "disposeFish", IF hitCart THEN "hit" ELSE "lost")

\* checkFishCatchWindow without the test of fishWindowClosed.
checkFishCatchWindow_reopening(w, geo) ==
  IF w.activeFish = Null THEN w
  ELSE IF geo = "above" THEN [w EXCEPT !.fishWindowClosed = TRUE]
  ELSE IF geo = "hit" THEN disposeFish(w, TRUE)
  ELSE w

\* checkFishCatchWindow(pos): geo says where pos lies. "above": pos.y < cartTop - 36;
\* "hit": not above, pos.y <= cartTop + 10, within FISH_HIT_RADIUS and the hole width.
checkFishCatchWindow(w, geo) ==
  IF w.activeFish = Null THEN w
  ELSE IF geo = "above" THEN [w EXCEPT !.fishWindowClosed = TRUE]
  ELSE IF w.fishWindowClosed THEN w
  ELSE IF geo = "hit" THEN disposeFish(w, TRUE)
  ELSE w

\* updateFish, the end of the ascend phase: w2 is what checkFishCatchWindow left.
ascended(w2, t1) ==
  IF t1 >= 1386 /\ w2.activeFish # Null
    THEN [w2 EXCEPT !.activeFish = [phase |-> "down", t |-> 0]]
    ELSE w2

\* updateFish, after f.t += dt / duration has made the phase time t1.
flown(w1, t1, geo) ==
  IF w1.activeFish.phase = "up"
    THEN ascended(checkFishCatchWindow(w1, geo), t1)
  ELSE IF t1 >= 1386 \/ geo = "sunk" THEN disposeFish(w1, FALSE)
  ELSE w1

\* The phase time after f.t += dt / duration, with dt = delta / 60.
phaseTime(f, delta) == f.t + delta * (IF f.phase = "up" THEN 21 ELSE 22)

\* updateFish(dt) with dt = delta / 60; geo says where pos lies, "sunk":
\* pos.y > BASE_HEIGHT + 20, "hit" in the descend phase: inside the hit window.
updateFish(w, delta, geo) ==
  IF w.activeFish = Null THEN w
  ELSE Logged(w,
              flown([w EXCEPT !.activeFish.t = phaseTime(w.activeFish, delta)],
                    phaseTime(w.activeFish, delta), geo),
              "updateFish", geo)

-----------------------------------------------------------------------------
(* The frame, the scene and the buttons *)

\* update, the fish unlock; rnd is the Math.random() of randRange.
unlockFish(w, t, rnd) ==
  IF ~w.gameState.fishUnlocked /\ w.gameState.score >= FISH_UNLOCK_SCORE
    THEN Logged(w,
                [w EXCEPT !.gameState.fishUnlocked = TRUE,
                          !.nextFishAt = t + randRange(FISH_INTERVAL_MIN \div 2,
                                           FISH_INTERVAL_MIN + FISH_INTERVAL_RANGE, rnd)],
                "unlock", "fish")
    ELSE w

\* update, the spawn check.
spawnIfDue(w, t, in) ==
  IF Ms(t - w.gameState.lastSpawnTime) > w.gameState.spawnInterval
    THEN trigger([spawnItem(w, in.point, in.jx, in.jy, in.roll)
                    EXCEPT !.gameState.lastSpawnTime = t])
    ELSE w

\* update, from the end of the item pass L on.  A TypeError thrown in the
\* pass has left update.
afterPass(L, delta, t, in) ==
  IF L.thrown THEN L.w
  ELSE updateFish(
         spawnIfDue(
           maybeSpawnFish(
             unlockFish([L.w EXCEPT !.items = WithParent(@)], t, in.unlockRnd),
             t, in.fishRnd),
           t, in),
         delta, in.geo)

\* How a frame's delta is logged.
Sign(delta) == IF delta < 0 THEN "back" ELSE IF delta = 0 THEN "still" ELSE "forward"

\* The world w with the log entry of a frame that passed the playing test of
\* update(delta).
entered(w, delta) ==
  [w EXCEPT !.log = Append(@, [op |-> "update", kind |-> Sign(delta),
                               pre |-> Snap(w), post |-> Snap(w),
                               delta |-> delta])]

\* update(delta) with performance.now() = t.  in holds what the frame reads from
\* its environment: cart (withinCart per item), geo (where the bonus projectile
\* is), point, jx, jy, roll (the Math.random() calls of spawnItem), unlockRnd and
\* fishRnd (the Math.random() of the two randRange calls).
update(w, delta, t, in) ==
  IF ~w.gameState.playing THEN w
  ELSE afterPass(forEach([w |-> entered(w, delta),
                          arr |-> w.items, same |-> TRUE, thrown |-> FALSE],
                         1, delta, in.cart),
                 delta, t, in)

\* buildScene without the call of intellect.reset.
buildScene_noReset(w, t, rnd) ==
  LET g == [w.gameState EXCEPT !.score = 0, !.misses = 0,
                               !.spawnInterval = Ms(InitialInterval),
                               !.lastSpawnTime = t,
                               !.magicCountdown = 0,
                               !.forceMagic = FALSE,
                               !.fishUnlocked = FALSE]
  IN  [w EXCEPT !.items = << >>,
                !.owed = {},
                !.fishSprites = 0,
                !.activeFish = Null,
                !.fishWindowClosed = FALSE,
                !.nextFishAt = t + randRange(FISH_INTERVAL_MIN,
                                 FISH_INTERVAL_MIN + FISH_INTERVAL_RANGE, rnd),
                !.gameState = g]

\* buildScene() with performance.now() = t; rnd is the Math.random() of randRange.
buildScene(w, t, rnd) ==
  LET g == [w.gameState EXCEPT !.score = 0, !.misses = 0,
                               !.spawnInterval = Ms(InitialInterval),
                               !.lastSpawnTime = t,
                               !.magicCountdown = 0,
                               !.forceMagic = FALSE,
                               !.fishUnlocked = FALSE]
      w1 == [w EXCEPT !.items = << >>,
                      !.owed = {},
                      !.fishSprites = 0,
                      !.activeFish = Null,
                      !.fishWindowClosed = FALSE,
                      !.nextFishAt = t + randRange(FISH_INTERVAL_MIN,
                                       FISH_INTERVAL_MIN + FISH_INTERVAL_RANGE, rnd),
                      !.gameState = g]
  IN  reset(w1, g.spawnInterval)

\* restartGame()
restartGame(w, t, rnd) ==
  LET w1 == buildScene(w, t, rnd)
      w2 == [w1 EXCEPT !.gameState.playing = TRUE]
  IN  Logged(w, w2, "restartGame", "restart")

-----------------------------------------------------------------------------
(* What the environment supplies *)

\* A frame reads the ticker's delta (dt = delta / 60) and performance.now(),
\* which has advanced by gap ms since the last read.
Frames == { [gap |-> 2500, delta |-> 0],
            [gap |-> 2500, delta |-> 60],
            [gap |-> 0, delta |-> 60] }
\* Math.floor(Math.random() * SPAWN_POINTS.length) + 1
Points == {1}
\* Math.random() * 80 - 40, the launch jitter
Jitters == {0}
\* Math.random() in halves, for randRange
Rnds == {0, 1}
\* Where the bonus projectile is with respect to the cart and the water
FishGeos == {"none", "above", "hit", "sunk"}
\* The value found under BEST_KEY when the assets are loaded
StoredBests == {0}
\* The length of a wait with the ticker stopped, in ms
WaitGaps == {2500}

-----------------------------------------------------------------------------
(* The timer-based revision *)

\* spawnInterval of the timer-based revision, in ms; it never changes.
TimedInterval == 2000
\* spawnTimer after clearInterval.
NoTimer == -1
\* The timer-based revision is followed up to TimedHorizon ms, time passing in
\* steps of TimedStep ms, with at most MaxTimedRestarts restarts.
TimedHorizon == 8000
TimedStep == 500
MaxTimedRestarts == 1
(* The timer-based revision, src/unnamed/part_000.  Its state is the record
   timed: the module variables playing, items, score, best, misses,
   spawnInterval, lastSpawnTime; spawnTimer, the time at which the interval
   set by setInterval calls spawnItem next, or NoTimer after clearInterval;
   started, app.ticker.started; listeners, how many times update was added to
   the ticker; global, whether the free identifier intellect of buildScene and
   update is defined in the page; booted, whether startCatchbot was called; now, performance.now(), in ms; restarts, the
   restartGame calls so far. *)

\* spawnItem(): the item launched from SPAWN_POINTS[0] with no jitter, a fish
\* if isFish.
spawnItemTimed(s, isFish) ==
  IF ~s.playing THEN s
  ELSE [s EXCEPT !.items = Append(@, [type |-> IF isFish THEN "fish" ELSE "screw",
                                      x |-> SPAWN_POINTS[1].x * 720,
                                      y |-> SPAWN_POINTS[1].y * 720,
                                      vx |-> SPAWN_POINTS[1].dir * LAUNCH_dx * 12,
                                      vy |-> -(LAUNCH_dy * 12),
                                      parent |-> TRUE])]

\* startSpawning(), and the two lines of update that do the same.
startSpawning(s) == [s EXCEPT !.spawnTimer = s.now + s.spawnInterval]

\* endGame() during the pass P over the array P.arr.
endGameTimed(P) ==
  [P EXCEPT !.s.playing = FALSE,
            !.s.spawnTimer = NoTimer,
            !.s.items = << >>,
            !.arr = [k \in 1..Len(P.arr) |-> [P.arr[k] EXCEPT !.parent = FALSE]]]

\* item.parent.removeChild(item) for the item at position i: a TypeError if the
\* item has no parent.
removeChildTimed(P, i) ==
  IF P.arr[i].parent THEN [P EXCEPT !.arr[i].parent = FALSE]
  ELSE [P EXCEPT !.thrown = TRUE]

\* handleCatch(item) for the item at position i.
handleCatchTimed(P, i) ==
  LET score1 == IF P.arr[i].type = "fish" THEN Max(0, P.s.score - FishPenalty)
                ELSE P.s.score + CatchScore
  IN  removeChildTimed([P EXCEPT !.s.score = score1,
                                 !.s.best = Max(@, score1)], i)

\* handleMiss(item) for the item at position i.
handleMissTimed(P, i) ==
  IF ~P.arr[i].parent THEN [P EXCEPT !.thrown = TRUE]
  ELSE IF P.s.misses + 1 >= MAX_MISSES
    THEN endGameTimed([P EXCEPT !.arr[i].parent = FALSE, !.s.misses = @ + 1])
  ELSE [P EXCEPT !.arr[i].parent = FALSE, !.s.misses = @ + 1]

\* The integration step for one item, with dt = delta / 60:
\* g = GRAVITY * dt; vy += g * dt; x += vx * dt; y += vy * dt.
integrateTimed(item, delta) ==
  LET vy1 == item.vy + (GRAVITY * delta * delta) \div 300
  IN  [item EXCEPT !.vy = vy1,
                   !.x = @ + item.vx * delta,
                   !.y = @ + vy1 * delta]

\* The body of the forEach callback for position i.
forItemTimed(P, i, delta, within) ==
  LET item == integrateTimed(P.arr[i], delta)
  IN  IF within /\ item.vy > 0
        THEN handleCatchTimed([P EXCEPT !.arr[i] = item], i)
      ELSE IF item.y > (BASE_HEIGHT + MissMargin) * 720
        THEN handleMissTimed([P EXCEPT !.arr[i] = item], i)
      ELSE [P EXCEPT !.arr[i] = item]

\* items.forEach(...) from position i on; an exception ends it.
RECURSIVE forEachTimed(_, _, _, _)
forEachTimed(P, i, delta, within) ==
  IF i > Len(P.arr) \/ P.thrown THEN P
  ELSE forEachTimed(forItemTimed(P, i, delta, within), i + 1, delta, within)

\* The rest of update after the pass P: the filter, the calls of intellect and
\* the spawn check.  An exception of the pass ends update.
afterPassTimed(P, isFish) ==
  IF P.thrown THEN P.s
  ELSE LET s1 == [P.s EXCEPT !.items =
                     IF P.s.playing
                       THEN SelectSeq(P.arr, LAMBDA item : item.parent)
                       ELSE << >>]
       IN  IF s1.now - s1.lastSpawnTime > s1.spawnInterval
             THEN startSpawning([spawnItemTimed(s1, isFish)
                                   EXCEPT !.lastSpawnTime = s1.now])
             ELSE s1

\* update(delta); within is withinCart, the same for every item.
updateTimed(s, delta, within, isFish) ==
  IF ~s.playing THEN s
  ELSE afterPassTimed(forEachTimed([s |-> s, arr |-> s.items, thrown |-> FALSE],
                                   1, delta, within),
                      isFish)

\* buildScene(): a ReferenceError at intellect.reset() if intellect is not
\* defined, else one more listener on the ticker.
buildSceneTimed(s) ==
  LET s1 == [s EXCEPT !.items = << >>, !.score = 0, !.misses = 0,
                      !.spawnInterval = TimedInterval,
                      !.lastSpawnTime = s.now]
  IN  IF s.global THEN [s1 EXCEPT !.listeners = @ + 1] ELSE s1

\* restartGame(): clearInterval; buildScene(); startSpawning(); playing = true.
restartGameTimed(s) ==
  LET s1 == buildSceneTimed([s EXCEPT !.spawnTimer = NoTimer, !.restarts = @ + 1])
  IN  IF s.global THEN [startSpawning(s1) EXCEPT !.playing = TRUE] ELSE s1

\* togglePause()
togglePauseTimed(s) ==
  IF ~s.playing THEN s ELSE [s EXCEPT !.started = ~@]

\* The module-level initial values: the page has run the script and has not
\* called startCatchbot.
loadedTimed ==
  [ global |-> FALSE, booted |-> FALSE, playing |-> FALSE, started |-> FALSE,
    listeners |-> 0, items |-> << >>, score |-> 0, best |-> 0, misses |-> 0,
    spawnInterval |-> TimedInterval, lastSpawnTime |-> 0, spawnTimer |-> NoTimer,
    now |-> 0, restarts |-> 0 ]

\* startCatchbot(): loadAssets(), initApp(), buildScene(), startSpawning(),
\* playing = true; the catch clause takes the ReferenceError of buildScene.
startCatchbotTimed(s, global) ==
  LET s1 == buildSceneTimed([s EXCEPT !.global = global, !.booted = TRUE,
                                      !.started = TRUE])
  IN  IF global THEN [startSpawning(s1) EXCEPT !.playing = TRUE] ELSE s1

-----------------------------------------------------------------------------
(* State *)

VARIABLES
  gameState,         \* the object gameState
  intellect,         \* the mutable fields of the object intellect
  items,             \* the array items, each sprite with its parent flag
  activeFish,        \* the bonus projectile, or Null
  nextFishAt,
  fishWindowClosed,
  fishSprites,       \* the fish sprites that are children of gameContainer
  localBest,         \* localStorage[BEST_KEY]
  tickerStarted,     \* app.ticker.started
  now,               \* performance.now()
  log,               \* the calls of the last operation
  restarts,          \* restartGame calls so far
  waits,             \* waits so far
  pausedMs,          \* time waited with the ticker stopped since lastSpawnTime was set
  overFrames,        \* frames run since the game ended
  deadline,          \* the clock value no frame or wait passes
  resolvedAt,        \* when the last bonus projectile was disposed of, or -1
  owed,              \* what the pity timer owes (see Snap)
  sinceForced,       \* spawns: the forced Recovery spawns of the game so far, 2
                     \* at most; catches: the Standard catches since the last of
                     \* them, MAGIC_COUNTDOWN at most
  timed              \* the state of the timer-based revision (see below)

played == << gameState, intellect, items, activeFish, nextFishAt, fishWindowClosed,
             fishSprites, localBest, tickerStarted, now, log, restarts, waits,
             pausedMs, overFrames, deadline, resolvedAt, owed, sinceForced >>

vars == << played, timed >>

World ==
  [ gameState |-> gameState, intellect |-> intellect, items |-> items,
    activeFish |-> activeFish, nextFishAt |-> nextFishAt,
    fishWindowClosed |-> fishWindowClosed, fishSprites |-> fishSprites,
    localBest |-> localBest, log |-> << >>, owed |-> owed ]

Install(w) ==
  /\ gameState' = w.gameState
  /\ intellect' = w.intellect
  /\ items' = w.items
  /\ activeFish' = w.activeFish
  /\ nextFishAt' = w.nextFishAt
  /\ fishWindowClosed' = w.fishWindowClosed
  /\ fishSprites' = w.fishSprites
  /\ localBest' = w.localBest
  /\ log' = w.log
  /\ owed' = w.owed

\* The module-level initial values, with gameState.best as loadAssets() set it.
Loaded(stored) ==
  [ gameState |-> [ score |-> 0, best |-> stored, misses |-> 0,
                    spawnInterval |-> Ms(InitialInterval), lastSpawnTime |-> 0,
                    playing |-> FALSE, fishUnlocked |-> FALSE,
                    magicCountdown |-> 0, forceMagic |-> FALSE ],
    intellect |-> [ nextRelaxationScore |-> waveScoreStep,
                    pendingRelaxations |-> 0,
                    bestDifficultyInterval |-> Ms(InitialInterval) ],
    items |-> << >>, activeFish |-> Null, nextFishAt |-> 0,
    fishWindowClosed |-> FALSE, fishSprites |-> 0,
    localBest |-> stored, log |-> << >>, owed |-> {} ]

\* startCatchbot(): buildScene(); startSpawning(); gameState.playing = true.
startCatchbot(stored, t, rnd) ==
  LET w1 == buildScene(Loaded(stored), t, rnd)
  IN  [w1 EXCEPT !.gameState.lastSpawnTime = t, !.gameState.playing = TRUE]

Init ==
  \E stored \in StoredBests, rnd \in Rnds :
    LET w == startCatchbot(stored, 0, rnd)
    IN  /\ gameState = w.gameState
        /\ intellect = w.intellect
        /\ items = w.items
        /\ activeFish = w.activeFish
        /\ nextFishAt = w.nextFishAt
        /\ fishWindowClosed = w.fishWindowClosed
        /\ fishSprites = w.fishSprites
        /\ localBest = w.localBest
        /\ log = << >>
        /\ owed = w.owed
        /\ tickerStarted = TRUE
        /\ now = 0
        /\ restarts = 0
        /\ waits = 0
        /\ pausedMs = 0
        /\ overFrames = 0
        /\ deadline = OpenHorizon
        /\ resolvedAt = -1
        /\ sinceForced = [spawns |-> 0, catches |-> 0]
        /\ timed = loadedTimed

-----------------------------------------------------------------------------
(* Actions *)

\* Does the frame read this input?  An input the frame cannot read is fixed.
SpawnDue(t) == Ms(t - gameState.lastSpawnTime) > gameState.spawnInterval
FishNear ==
  \/ activeFish # Null
  \/ gameState.fishUnlocked
  \/ gameState.score + CatchScore * Len(items) >= FISH_UNLOCK_SCORE

\* sinceForced after the call e, since being what it was before.
Tallied(since, e) ==
  IF e.op = "spawnItem" /\ e.kind = "forced"
    THEN [spawns |-> Min(since.spawns + 1, 2), catches |-> 0]
  ELSE IF e.op = "handleCatch" /\ e.kind = "screw" /\ since.spawns > 0
    THEN [since EXCEPT !.catches = Min(@ + 1, MAGIC_COUNTDOWN)]
  ELSE since

\* sinceForced after the calls k..n of the log l, since being what it was
\* before them.
RECURSIVE Counted(_, _, _, _)
Counted(l, k, n, since) ==
  IF k > n \/ since.spawns < 0 THEN since
  ELSE Counted(l, k + 1, n, Tallied(since, l[k]))

\* The frame f has run update and left the world w.
Rendered(w, f, most, push) ==
  /\ Len(w.items) <= most
  /\ Install(w)
  /\ now' = now + f.gap
  /\ overFrames' = IF gameState.playing THEN 0 ELSE overFrames + 1
  /\ pausedMs' = IF w.gameState.lastSpawnTime = gameState.lastSpawnTime
                   THEN pausedMs ELSE 0
  /\ deadline' = IF push > 0 /\ restarts = 0
                   THEN now + f.gap + push ELSE deadline
  /\ resolvedAt' = IF \E i \in 1..Len(w.log) : w.log[i].op = "disposeFish"
                     THEN now + f.gap ELSE resolvedAt
  /\ sinceForced' = Counted(w.log, 1, Len(w.log), sinceForced)
  /\ UNCHANGED << tickerStarted, restarts, waits, timed >>

\* A frame: the ticker calls update(delta).  The frame is one of frames, the hit
\* tests of the items are one of carts, the magic roll one of rolls, the place of
\* the bonus projectile one of geos; the clock does not pass horizon and the
\* array does not grow beyond most; push is how far the deadline is put off.
Frame(frames, carts, rolls, geos, horizon, most, push) ==
  /\ tickerStarted
  /\ gameState.playing \/ overFrames < MaxOverFrames
  /\ \E f \in frames, cart \in carts :
       /\ now + f.gap <= Min(horizon, deadline)
       /\ \E point \in Points, jx \in Jitters, jy \in Jitters,
             roll \in IF SpawnDue(now + f.gap) /\ gameState.misses > 0
                        THEN rolls ELSE {FALSE},
             unlockRnd \in IF FishNear /\ ~gameState.fishUnlocked THEN Rnds ELSE {0},
             fishRnd \in IF FishNear /\ activeFish = Null THEN Rnds ELSE {0},
             geo \in IF FishNear THEN geos ELSE {"none"} :
            Rendered(update(World, f.delta, now + f.gap,
                            [ cart |-> cart, geo |-> geo, point |-> point, jx |-> jx,
                              jy |-> jy, roll |-> roll, unlockRnd |-> unlockRnd,
                              fishRnd |-> fishRnd ]),
                     f, most, push)

\* A frame of open play: every input is free.
Tick ==
  Frame(Frames, [1..Len(items) -> BOOLEAN], BOOLEAN, FishGeos, OpenHorizon,
        MaxItems, 0)

\* The cart takes the n oldest items.
Oldest(n) == [k \in 1..Len(items) |-> k <= n]

Regular == {[gap |-> 2500, delta |-> 60]}
Hover == {[gap |-> 2500, delta |-> 0]}
Drift == {[gap |-> 0, delta |-> 24]}
Still == {[gap |-> 0, delta |-> 0]}

\* A frame whose delta is negative.
Rewind == {[gap |-> 2500, delta |-> -60]}

\* Rehearsed play: no magic item is rolled.  Before the first catch a frame is
\* regular (2500 ms, delta = 60) or launches an item without moving the others
\* (delta = 0), and the cart takes all the items or none.  Then, while the score
\* is below RehearsedScore, the frames are regular and the player catches every
\* item.  From RehearsedScore on the frames are regular and the hit tests of
\* the items and of the bonus projectile are free, for FishWindow ms.
Rehearsing == gameState.score < RehearsedScore

Opening == gameState.score = 0 /\ ~gameState.fishUnlocked

FishFree == gameState.fishUnlocked \/ ~Rehearsing

TickFish ==
  Frame(IF Opening THEN Regular \cup Hover ELSE Regular,
        IF Opening THEN {Oldest(0), Oldest(Len(items))}
        ELSE IF FishFree THEN [1..Len(items) -> BOOLEAN]
        ELSE {Oldest(Len(items))},
        {FALSE},
        IF FishFree THEN FishGeos ELSE {"none"},
        FishHorizon, OpeningItems,
        IF FishFree THEN 0 ELSE FishWindow)

\* Crowded play: the player lets PityMisses items fall, then lets CrowdSize
\* items gather in the air (frames with delta = 0 launch them, one frame with
\* delta = 24 turns them downwards) and then collects them from the oldest on,
\* a few at a time, in frames with delta = 0; while forceMagic is set the
\* crowd may also fall on (frames with delta = 24).  The magic roll may
\* succeed when CrowdLead or CrowdLead + 1 items are in the air.  Play stops
\* PityWindow ms after the collecting began, or after the countdown ran down
\* for the second time.
Calm == items = << >> \/ items[1].vy < 0

Sweeps == {0, 2, CrowdLead}

\* The countdown has run down again after the first forced Recovery spawn:
\* play goes on for the second.
Repaid ==
  /\ gameState.forceMagic
  /\ gameState.misses > 0
  /\ sinceForced = [spawns |-> 1, catches |-> MAGIC_COUNTDOWN]

\* The stages of crowded play: letting the first items fall (launching, then
\* falling), gathering the crowd, turning it downwards, and collecting.
PityStage ==
  IF gameState.score > 0 THEN "collect"
  ELSE IF gameState.misses = 0 /\ Calm /\ Len(items) < PityMisses THEN "launch"
  ELSE IF gameState.misses < PityMisses THEN "fall"
  ELSE IF Calm /\ Len(items) < CrowdSize THEN "gather"
  ELSE IF Calm THEN "turn"
  ELSE "collect"

TickPity ==
  Frame(CASE PityStage \in {"launch", "gather"} -> Hover
          [] PityStage \in {"fall", "turn"} -> Drift
          [] OTHER -> IF gameState.forceMagic
                        THEN Hover \cup Still \cup Drift ELSE Hover \cup Still,
        IF PityStage = "collect" THEN {Oldest(n) : n \in Sweeps} ELSE {Oldest(0)},
        IF PityStage = "gather" /\ Len(items) \in {CrowdLead, CrowdLead + 1}
          THEN BOOLEAN ELSE {FALSE},
        {"none"}, PityHorizon, CrowdSize + 2,
        IF PityStage = "collect" /\ ~Repaid THEN 0 ELSE PityWindow)

\* A frame of play in which the ticker may hand update a negative delta.
TickRewind ==
  Frame(Regular \cup Hover \cup Rewind, [1..Len(items) -> BOOLEAN], BOOLEAN,
        FishGeos, RewindHorizon, MaxItems, 0)

\* togglePause(): the pause button.
TogglePause ==
  /\ tickerStarted' = IF gameState.playing THEN ~tickerStarted ELSE tickerStarted
  /\ Install(Logged(World, World, "togglePause", "pause"))
  /\ UNCHANGED << now, restarts, waits, pausedMs, overFrames, deadline, resolvedAt,
               sinceForced, timed >>

\* Time passes while the ticker is stopped.
Wait ==
  /\ ~tickerStarted
  /\ waits < MaxWaits
  /\ \E gap \in WaitGaps :
       /\ now + gap <= deadline
       /\ now' = now + gap
       /\ pausedMs' = pausedMs + gap
       /\ deadline' = Min(deadline, now + gap + Aftermath)
  /\ waits' = waits + 1
  /\ Install(World)
  /\ UNCHANGED << tickerStarted, restarts, overFrames, resolvedAt, sinceForced,
                  timed >>

\* restartGame(): the replay button.
RestartGame ==
  /\ restarts < MaxRestarts
  /\ \E rnd \in Rnds : Install(restartGame(World, now, rnd))
  /\ restarts' = restarts + 1
  /\ overFrames' = 0
  /\ pausedMs' = 0
  /\ deadline' = Min(deadline, now + Aftermath)
  /\ resolvedAt' = -1
  /\ sinceForced' = [spawns |-> 0, catches |-> 0]
  /\ UNCHANGED << tickerStarted, now, waits, timed >>

Next == Tick \/ TogglePause \/ Wait \/ RestartGame

Spec == Init /\ [][Next]_vars

NextFish == TickFish \/ RestartGame
SpecFish == Init /\ [][NextFish]_vars

NextPity == TickPity
SpecPity == Init /\ [][NextPity]_vars

NextRewind == TickRewind
SpecRewind == Init /\ [][NextRewind]_vars

\* The page calls window.startCatchbot, with or without a global intellect.
StartCatchbotTimed ==
  /\ ~timed.booted
  /\ \E global \in BOOLEAN : timed' = startCatchbotTimed(timed, global)
  /\ UNCHANGED played

\* Time passes; an interval that is due calls spawnItem before more time passes.
ElapseTimed ==
  /\ timed.booted
  /\ timed.now + TimedStep <= TimedHorizon
  /\ timed.spawnTimer # NoTimer => timed.now + TimedStep <= timed.spawnTimer
  /\ timed' = [timed EXCEPT !.now = @ + TimedStep]
  /\ UNCHANGED played

\* The interval calls spawnItem.
IntervalTimed ==
  /\ timed.spawnTimer # NoTimer
  /\ timed.now >= timed.spawnTimer
  /\ \E isFish \in BOOLEAN :
       timed' = [spawnItemTimed(timed, isFish)
                   EXCEPT !.spawnTimer = @ + timed.spawnInterval]
  /\ UNCHANGED played

\* A frame: the ticker calls every listener, that is update once for each
\* buildScene so far.
TickTimed ==
  /\ timed.started
  /\ timed.listeners > 0
  /\ \E delta \in {0, 60}, within \in BOOLEAN, isFish \in BOOLEAN :
       timed' = IF timed.listeners = 1
                  THEN updateTimed(timed, delta, within, isFish)
                  ELSE updateTimed(updateTimed(timed, delta, within, isFish),
                                   delta, within, isFish)
  /\ UNCHANGED played

\* The pause button, which buildScene makes after intellect.reset().
TogglePauseTimed ==
  /\ timed.listeners > 0
  /\ timed' = togglePauseTimed(timed)
  /\ UNCHANGED played

\* The replay button, which buildScene makes after intellect.reset().
RestartGameTimed ==
  /\ timed.listeners > 0
  /\ timed.restarts < MaxTimedRestarts
  /\ timed' = restartGameTimed(timed)
  /\ UNCHANGED played

NextTimer ==
  StartCatchbotTimed \/ ElapseTimed \/ IntervalTimed \/ TickTimed \/ TogglePauseTimed \/ RestartGameTimed
SpecTimer == Init /\ [][NextTimer]_vars

-----------------------------------------------------------------------------
(* Properties *)

\* The positions of the log that hold a call of op.
Calls(op) == { i \in 1..Len(log) : log[i].op = op }

InRange(x) == Ms(minInterval) <= x /\ x <= Ms(maxInterval)

\* C1: gameState.spawnInterval lies between minInterval and maxInterval, in
\* every state and after every call made by a frame or a restart.
C1_IntervalInRange ==
  /\ InRange(gameState.spawnInterval)
  /\ \A i \in 1..Len(log) : InRange(log[i].post.spawnInterval)

\* A bonus mis-catch has lifted the interval, in a play in which relaxations
\* were granted, above the interval the play began with.
C1_Witness ==
  /\ \E i \in Calls("applyFishRelaxation") :
       log[i].post.spawnInterval > log[i].pre.spawnInterval
  /\ intellect.pendingRelaxations > 0
  /\ gameState.spawnInterval > Ms(InitialInterval)

\* C2: gameState.misses lies between 0 and MAX_MISSES in every state.
C2_MissesInRange ==
  0 <= gameState.misses /\ gameState.misses <= MAX_MISSES

\* C3: at most one bonus projectile is live, and spawnFish is only ever
\* called while activeFish is null.
C3_OneFish ==
  /\ fishSprites <= 1
  /\ \A i \in Calls("spawnFish") : log[i].pre.activeFish = Null

\* A bonus projectile is launched after an earlier one was caught: the score
\* is below the unlock score only because of the penalty.
C3_Witness ==
  \E i \in Calls("spawnFish") :
    log[i].pre.score < FISH_UNLOCK_SCORE /\ fishSprites = 1

\* C4: when misses has reached MAX_MISSES the game is over and, at the end
\* of the frame, items is empty and activeFish is null.
C4_GameOverClears ==
  gameState.misses >= MAX_MISSES =>
    ~gameState.playing /\ items = << >> /\ activeFish = Null

\* What GameOver is to leave alone.
Frozen(s) ==
  [ score |-> s.score, misses |-> s.misses, best |-> s.best,
    spawnInterval |-> s.spawnInterval, intellect |-> s.intellect,
    live |-> s.live, activeFish |-> s.activeFish ]

\* C5: what endGame leaves is what the frame that called it leaves: score,
\* misses, best, spawnInterval, the difficulty state and the live projectiles
\* do not change in the remainder of the frame.
C5_GameOverTerminal ==
  \A i \in Calls("endGame") : Frozen(Snap(World)) = Frozen(log[i].post)

\* C6: after restartGame everything is reset and best is what it was.
C6_RestartResets ==
  Calls("restartGame") # {} =>
    /\ gameState.score = 0
    /\ gameState.misses = 0
    /\ gameState.spawnInterval = Ms(InitialInterval)
    /\ gameState.magicCountdown = 0
    /\ ~gameState.forceMagic
    /\ ~gameState.fishUnlocked
    /\ intellect = [ nextRelaxationScore |-> waveScoreStep,
                     pendingRelaxations |-> 0,
                     bestDifficultyInterval |-> Ms(InitialInterval) ]
    /\ items = << >>
    /\ activeFish = Null
    /\ \A i \in Calls("restartGame") : gameState.best = log[i].pre.best

\* restartGame was called with a bonus projectile and an item in the air,
\* misses outstanding, a relaxation granted and a best score.
C6_Witness ==
  \E i \in Calls("restartGame") :
    /\ log[i].pre.activeFish # Null
    /\ log[i].pre.live > 0
    /\ log[i].pre.misses > 0
    /\ log[i].pre.magicCountdown > 0
    /\ log[i].pre.intellect.pendingRelaxations > 0
    /\ log[i].pre.spawnInterval # Ms(InitialInterval)
    /\ log[i].pre.intellect.bestDifficultyInterval < Ms(InitialInterval)
    /\ log[i].pre.best > 0

\* C7: after restartGame the game is playing and the ticker runs.
C7_RestartRuns ==
  Calls("restartGame") # {} => gameState.playing /\ tickerStarted

\* C8: a frame spawns an item only if the time since the last spawn, less
\* the time waited with the ticker stopped, exceeds spawnInterval.
C8_PauseFreezesClock ==
  [][ (\E i \in 1..Len(log') : log'[i].op = "trigger")
        => Ms(now' - gameState.lastSpawnTime - pausedMs) > gameState.spawnInterval
    ]_vars

\* C9: a Standard catch made with misses > 0 that completes the count owed
\* to some earlier state of the run leaves forceMagic true, and a spawn made
\* with forceMagic true and misses > 0 is a Recovery item.
C9_PityTimer ==
  /\ \A i \in Calls("handleCatch") :
       (log[i].kind = "screw" /\ log[i].pre.misses > 0 /\ 0 \in log[i].post.owed)
         => log[i].post.forceMagic
  /\ \A i \in Calls("spawnItem") :
       (log[i].pre.forceMagic /\ log[i].pre.misses > 0) => log[i].kind = "forced"

\* C10: a Recovery catch sets misses to max(0, misses - 1), adds 10 to the
\* score and sets magicCountdown to MAGIC_COUNTDOWN.
C10_RecoveryCatch ==
  \A i \in Calls("handleCatch") :
    log[i].kind = "magic" =>
      /\ log[i].post.misses = Max(0, log[i].pre.misses - 1)
      /\ log[i].post.misses <= log[i].pre.misses
      /\ log[i].post.misses >= 0
      /\ log[i].post.score = log[i].pre.score + 10
      /\ log[i].post.magicCountdown = MAGIC_COUNTDOWN

\* Two Recovery catches in one frame: the first with a miss outstanding, the
\* second with none.
C10_Witness ==
  \E i, j \in Calls("handleCatch") :
    /\ log[i].kind = "magic" /\ log[i].pre.misses > 0
    /\ log[j].kind = "magic" /\ log[j].pre.misses = 0

\* The relaxation steps of the log that fired: maybeRelax past its score and
\* entry-epsilon tests, applyFishRelaxation past its entry-epsilon test.
Fired == { i \in Calls("maybeRelax") \cup Calls("applyFishRelaxation") :
             log[i].kind = "fired" }

\* C11 as stated: whenever a relaxation step fires, the interval it leaves is
\* at most relaxationCeiling() as evaluated in that step.
C11_UnderCeiling ==
  \A i \in Fired : log[i].after <= log[i].ceiling

\* C11: whenever a relaxation step fires, the interval it leaves is at most
\* the larger of the interval it was given and relaxationCeiling() as
\* evaluated in that step: relaxation raises the interval to the ceiling at
\* most, and leaves an interval that is above the ceiling as it is.
C11_RaisedUnderCeiling ==
  \A i \in Fired : log[i].after <= Max(log[i].before, log[i].ceiling)

\* A wave relaxation has raised the interval as far as the ceiling allowed,
\* by less than waveRelaxationBoost.
C11_Witness ==
  \E i \in Calls("maybeRelax") :
    /\ log[i].kind = "fired"
    /\ log[i].after > log[i].before
    /\ log[i].after = log[i].ceiling
    /\ log[i].after < log[i].before + Ms(waveRelaxationBoost)

\* C12: unless the step is a restart (intellect.reset), a step does not raise
\* intellect.bestDifficultyInterval: every call of intellect.trigger leaves
\* it equal or lower, and every other call made by the step (catch, miss,
\* bonus mis-catch with applyFishRelaxation, spawn) leaves it as it was.
C12_BestNonIncreasing ==
  [][ (\A i \in 1..Len(log') : log'[i].op # "restartGame") =>
        /\ intellect'.bestDifficultyInterval <= intellect.bestDifficultyInterval
        /\ \A i \in 1..Len(log') :
             IF log'[i].op = "trigger"
               THEN log'[i].post.intellect.bestDifficultyInterval
                      <= log'[i].pre.intellect.bestDifficultyInterval
               ELSE log'[i].post.intellect.bestDifficultyInterval
                      = log'[i].pre.intellect.bestDifficultyInterval
    ]_vars

\* In one frame a trigger has lowered bestDifficultyInterval and a bonus
\* mis-catch has then raised spawnInterval; in the same play a wave
\* relaxation was granted.
C12_Witness ==
  /\ \E i \in Calls("trigger") :
       log[i].post.intellect.bestDifficultyInterval
         < log[i].pre.intellect.bestDifficultyInterval
  /\ \E j \in Calls("applyFishRelaxation") :
       /\ log[j].kind = "fired"
       /\ log[j].after > log[j].before
  /\ intellect.pendingRelaxations > 0
  /\ gameState.spawnInterval > intellect.bestDifficultyInterval

\* The Standard catches made while playing, in the log.
StandardCatches ==
  { i \in Calls("handleCatch") : log[i].kind = "screw" /\ log[i].pre.playing }

\* C13: every Standard catch made while playing adds exactly 10 to the score
\* and causes one update of the difficulty controller: the frame calls
\* intellect.trigger once for each of its Standard catches at least, and a
\* trigger called with spawnInterval > 500 ms and granting no relaxation
\* lowers spawnInterval by the large step.
C13_CatchTightens ==
  /\ \A i \in StandardCatches : log[i].post.score = log[i].pre.score + CatchScore
  /\ Cardinality(Calls("trigger")) >= Cardinality(StandardCatches)
  /\ \A j \in Calls("trigger") :
       (log[j].kind = "tightened" /\ log[j].pre.spawnInterval > Ms(RegimeThreshold))
         => log[j].post.spawnInterval = log[j].pre.spawnInterval - LargeStep

\* C14: while the game is played a score of FISH_UNLOCK_SCORE or more has
\* unlocked the bonus projectile by the end of the frame, and the frame that
\* unlocks it, at performance.now() = now, leaves fishUnlocked true and sets
\* nextFishAt between now + FISH_INTERVAL_MIN and
\* now + FISH_INTERVAL_MIN + FISH_INTERVAL_RANGE, the range of spawnFish.
C14_UnlockSchedules ==
  /\ (gameState.playing /\ gameState.score >= FISH_UNLOCK_SCORE)
       => gameState.fishUnlocked
  /\ \A i \in Calls("unlock") :
       /\ ~log[i].pre.fishUnlocked
       /\ log[i].post.fishUnlocked
       /\ now + FISH_INTERVAL_MIN <= log[i].post.nextFishAt
       /\ log[i].post.nextFishAt <= now + FISH_INTERVAL_MIN + FISH_INTERVAL_RANGE

\* C15: while a bonus projectile is in the air with its catch window closed,
\* a frame does not catch it (no disposeFish(true)), wherever it is, and if
\* it is still in the air after the frame the window is still closed.
C15_WindowOneShot ==
  [][ (activeFish # Null /\ fishWindowClosed) =>
        /\ \A i \in 1..Len(log') :
             ~(log'[i].op = "disposeFish" /\ log'[i].kind = "hit")
        /\ activeFish' # Null => fishWindowClosed'
    ]_vars

\* A bonus projectile whose window closed while it rose is, in its descend
\* phase, inside the hit window of the cart, and flies on.
C15_Witness ==
  \E i \in Calls("updateFish") :
    /\ log[i].kind = "hit"
    /\ log[i].pre.fishWindowClosed
    /\ log[i].pre.activeFish.phase = "down"
    /\ log[i].post.activeFish # Null
    /\ log[i].post.misses = log[i].pre.misses

\* C16: a bonus projectile caught by the cart (disposeFish(true)) sets score
\* to max(0, score - 500), adds exactly 1 to misses, sets magicCountdown to
\* MAGIC_COUNTDOWN and forceMagic to false, calls applyFishRelaxation and
\* leaves spawnInterval no lower than it was, removes the bonus projectile,
\* and ends the game if misses has reached MAX_MISSES.
C16_FishPenalty ==
  \A i \in Calls("disposeFish") :
    log[i].kind = "hit" =>
      /\ log[i].post.score = Max(0, log[i].pre.score - FishPenalty)
      /\ log[i].post.misses = log[i].pre.misses + 1
      /\ log[i].post.magicCountdown = MAGIC_COUNTDOWN
      /\ ~log[i].post.forceMagic
      /\ \E j \in Calls("applyFishRelaxation") : j < i
      /\ log[i].post.spawnInterval >= log[i].pre.spawnInterval
      /\ log[i].post.activeFish = Null
      /\ log[i].post.misses >= MAX_MISSES
           => (~log[i].post.playing /\ log[i].post.live = 0)

\* The fifth miss is a bonus mis-catch: it takes a positive score to 0,
\* raises spawnInterval, restarts a countdown that had run down, and ends the
\* game.
C16_Witness ==
  \E i \in Calls("disposeFish") :
    /\ log[i].kind = "hit"
    /\ log[i].pre.score > 0 /\ log[i].post.score = 0
    /\ log[i].pre.misses = MAX_MISSES - 1
    /\ log[i].pre.playing /\ ~log[i].post.playing
    /\ log[i].pre.magicCountdown < MAGIC_COUNTDOWN
    /\ log[i].post.spawnInterval > log[i].pre.spawnInterval

\* What C17 asks of a state s (a snapshot): the score is not negative, best
\* is at least the score, and the stored best score is best.
BestKept(s) == s.score >= 0 /\ s.best >= s.score /\ s.localBest = s.best

\* C17: in every state, and after every call made by a step, score >= 0,
\* best >= score and the value stored under BEST_KEY is gameState.best; no
\* step and no call lowers best (a restart and a bonus penalty included), and
\* a call changes the stored value exactly when it raises best.
C17_BestMirrored ==
  [][ /\ BestKept(Snap(World))
      /\ BestKept([score |-> gameState'.score, best |-> gameState'.best,
                   localBest |-> localBest'])
      /\ gameState'.best >= gameState.best
      /\ \A i \in 1..Len(log') :
           /\ BestKept(log'[i].post)
           /\ log'[i].post.best >= log'[i].pre.best
           /\ (log'[i].post.localBest # log'[i].pre.localBest)
                <=> (log'[i].post.best > log'[i].pre.best)
    ]_vars

\* After a restart a catch is made below the best score: best and the stored
\* value stay as the earlier game left them.
C17_Witness ==
  /\ restarts > 0
  /\ \E i \in Calls("handleCatch") :
       /\ log[i].post.score > 0
       /\ log[i].post.score < log[i].post.best
       /\ log[i].post.localBest = log[i].pre.localBest
       /\ log[i].post.localBest > 0

\* The elements of a sequence.
Range(seq) == { seq[k] : k \in 1..Len(seq) }

\* C18: a frame whose delta is negative leaves what a frame with delta = 0
\* leaves: every item still in the air has the position and the velocity it
\* had, an item the frame launched apart; a bonus projectile that was in the
\* air and still is has the phase and phase time it had, and one the frame
\* launched has phase time 0.
C18_NegativeDtClamped ==
  [][ (\E i \in 1..Len(log') : log'[i].op = "update" /\ log'[i].kind = "back") =>
        /\ \A k \in 1..Len(items') :
             \/ items'[k] \in Range(items)
             \/ k = Len(items') /\ \E i \in 1..Len(log') : log'[i].op = "spawnItem"
        /\ activeFish' # Null =>
             IF \E i \in 1..Len(log') : log'[i].op = "spawnFish"
               THEN activeFish'.t = 0
               ELSE activeFish' = activeFish
    ]_vars

\* What C19 asks of a state s (a snapshot): spawnInterval lies between
\* bestDifficultyInterval and bestDifficultyInterval + relaxationHeadroom.
WithinHeadroom(s) ==
  /\ s.intellect.bestDifficultyInterval <= s.spawnInterval
  /\ s.spawnInterval <= s.intellect.bestDifficultyInterval + Ms(relaxationHeadroom)

\* C19: in every state and after every call, bestDifficultyInterval <=
\* spawnInterval <= bestDifficultyInterval + relaxationHeadroom; and
\* bestDifficultyInterval is the running minimum of spawnInterval: a restart
\* leaves it equal to spawnInterval, and every other call leaves it the
\* smaller of what it was and the spawnInterval the call leaves.
C19_HeadroomBound ==
  /\ WithinHeadroom(Snap(World))
  /\ \A i \in 1..Len(log) :
       /\ WithinHeadroom(log[i].post)
       /\ log[i].post.intellect.bestDifficultyInterval
            = IF log[i].op = "restartGame"
                THEN log[i].post.spawnInterval
                ELSE Min(log[i].pre.intellect.bestDifficultyInterval,
                         log[i].post.spawnInterval)

\* A bonus mis-catch has raised spawnInterval by the whole headroom above a
\* bestDifficultyInterval that the play had lowered.
C19_Witness ==
  /\ gameState.spawnInterval
       = intellect.bestDifficultyInterval + Ms(relaxationHeadroom)
  /\ intellect.bestDifficultyInterval < Ms(InitialInterval)
  /\ \E i \in Calls("applyFishRelaxation") :
       log[i].kind = "fired" /\ log[i].after > log[i].before

\* C20: a spawn yields a Recovery item, forced or rolled, only if misses > 0
\* when it is made; a spawn made with misses = 0 yields a Standard item,
\* whatever forceMagic is, and the item put in the array is of that type.
C20_RecoveryOnlyWithMisses ==
  \A i \in Calls("spawnItem") :
    /\ log[i].kind \in {"magic", "forced"} => log[i].pre.misses > 0
    /\ log[i].pre.misses = 0 => log[i].kind = "screw"
    /\ log[i].post.live = log[i].pre.live + 1

\* A spawn is made with forceMagic still set from a countdown that ran down
\* and with no miss outstanding: the item is Standard.
C20_Witness ==
  \E i \in Calls("spawnItem") :
    /\ log[i].pre.forceMagic
    /\ log[i].pre.misses = 0
    /\ log[i].kind = "screw"
    /\ log[i].post.forceMagic

\* The miss events of the log: a Standard or Recovery item past the miss
\* line (handleMiss) and a bonus mis-catch (disposeFish(true)).
MissEvents ==
  Calls("handleMiss") \cup { i \in Calls("disposeFish") : log[i].kind = "hit" }

\* C21: every miss event adds a miss and leaves magicCountdown =
\* MAGIC_COUNTDOWN and forceMagic = false, whatever they were before it.
C21_MissRestartsPity ==
  \A i \in MissEvents :
    /\ log[i].post.misses = log[i].pre.misses + 1
    /\ log[i].post.magicCountdown = MAGIC_COUNTDOWN
    /\ ~log[i].post.forceMagic

\* An item falls past the miss line while a forced Recovery spawn is pending
\* (forceMagic set, magicCountdown 0): the miss cancels it.
C21_Witness ==
  \E i \in Calls("handleMiss") :
    /\ log[i].pre.forceMagic
    /\ log[i].pre.magicCountdown = 0
    /\ log[i].pre.misses > 0
    /\ ~log[i].post.forceMagic

\* C22: a frame launches a bonus projectile, after an earlier one of the
\* same game was disposed of, no earlier than FISH_INTERVAL_MIN and no later
\* than FISH_INTERVAL_MIN + FISH_INTERVAL_RANGE ms after that disposal.
C22_ArrivalAfterResolution ==
  [][ ((\E i \in 1..Len(log') : log'[i].op = "spawnFish") /\ resolvedAt >= 0) =>
        /\ now' - resolvedAt >= FISH_INTERVAL_MIN
        /\ now' - resolvedAt <= FISH_INTERVAL_MIN + FISH_INTERVAL_RANGE
    ]_vars

\* C23: a step launches an item if and only if it is a frame that finds the
\* game playing at its spawn check with now - lastSpawnTime > spawnInterval;
\* it launches one item at most, a launch sets lastSpawnTime to now, and
\* intellect.trigger is called once for every item launched and not otherwise.
C23_SpawnCadence ==
  [][ LET spawns == { i \in 1..Len(log') : log'[i].op = "spawnItem" }
          triggers == { i \in 1..Len(log') : log'[i].op = "trigger" }
          ran == \E i \in 1..Len(log') : log'[i].op = "update"
          playingAtCheck ==
            \A i \in 1..Len(log') : log'[i].op = "handleMiss" => log'[i].post.playing
          due == Ms(now' - gameState.lastSpawnTime) > gameState.spawnInterval
      IN  /\ (spawns # {}) <=> (ran /\ playingAtCheck /\ due)
          /\ Cardinality(spawns) <= 1
          /\ \A i \in spawns : log'[i].post.live = log'[i].pre.live + 1
          /\ spawns # {} => gameState'.lastSpawnTime = now'
          /\ Cardinality(triggers) = Cardinality(spawns)
    ]_vars

\* C24: a relaxation fires in maybeRelax only with score >= nextRelaxationScore
\* and the tightened interval it is given <= bestDifficultyInterval +
\* relaxationEntryEpsilon; it then returns an interval no lower than the one
\* given, adds waveScoreStep to nextRelaxationScore and 1 to
\* pendingRelaxations.  It fires once at most in a call of intellect.trigger,
\* and a trigger in which it does not fire leaves nextRelaxationScore and
\* pendingRelaxations as they were and does not raise spawnInterval.
C24_RelaxationStep ==
  /\ \A i \in Calls("maybeRelax") :
       /\ log[i].pre.score >= log[i].pre.intellect.nextRelaxationScore
       /\ log[i].before <= log[i].pre.intellect.bestDifficultyInterval
                             + Ms(relaxationEntryEpsilon)
       /\ log[i].before <= log[i].pre.spawnInterval
       /\ log[i].after >= log[i].before
       /\ log[i].post.intellect.nextRelaxationScore
            = log[i].pre.intellect.nextRelaxationScore + waveScoreStep
       /\ log[i].post.intellect.pendingRelaxations
            = log[i].pre.intellect.pendingRelaxations + 1
  /\ Cardinality(Calls("maybeRelax")) <= Cardinality(Calls("trigger"))
  /\ \A j \in Calls("trigger") :
       IF log[j].kind = "relaxed"
         THEN /\ j - 1 \in Calls("maybeRelax")
              /\ log[j].post.spawnInterval = log[j - 1].after
              /\ log[j].post.intellect.pendingRelaxations
                   = log[j].pre.intellect.pendingRelaxations + 1
         ELSE /\ log[j].post.intellect.nextRelaxationScore
                   = log[j].pre.intellect.nextRelaxationScore
              /\ log[j].post.intellect.pendingRelaxations
                   = log[j].pre.intellect.pendingRelaxations
              /\ log[j].post.spawnInterval <= log[j].pre.spawnInterval

\* A second relaxation fires in a play: pendingRelaxations goes from 1 to 2.
C24_Witness ==
  \E i \in Calls("maybeRelax") :
    /\ log[i].pre.intellect.pendingRelaxations = 1
    /\ log[i].post.intellect.pendingRelaxations = 2
    /\ log[i].post.intellect.nextRelaxationScore = 3 * waveScoreStep

\* C25: in a frame every outcome belongs to an item that was in the air, no
\* item has two outcomes, an item is caught only moving down (vy > 0) inside
\* the cart, and missed only below the miss line and not so caught; a catch
\* adds 10 to the score once and a miss adds 1 to misses once; and the items
\* in the air after the frame are those without an outcome and the item
\* launched, or none after endGame.
C25_OneOutcome ==
  [][ LET outs == { i \in 1..Len(log') : log'[i].op = "classify" }
          catches == { i \in 1..Len(log') : log'[i].op = "handleCatch" }
          misses == { i \in 1..Len(log') : log'[i].op = "handleMiss" }
          spawns == { i \in 1..Len(log') : log'[i].op = "spawnItem" }
          over == \E i \in 1..Len(log') : log'[i].op = "endGame"
      IN  /\ \A i \in outs : log'[i].index \in 1..Len(items)
          /\ \A i, j \in outs : log'[i].index = log'[j].index => i = j
          /\ \A i \in outs :
               IF log'[i].kind = "caught"
                 THEN log'[i].within /\ log'[i].item.vy > 0
                 ELSE /\ log'[i].item.y > (BASE_HEIGHT + MissMargin) * 720
                      /\ ~(log'[i].within /\ log'[i].item.vy > 0)
          /\ Cardinality(catches) = Cardinality({ i \in outs : log'[i].kind = "caught" })
          /\ Cardinality(misses) <= Cardinality({ i \in outs : log'[i].kind = "missed" })
          /\ \A i \in catches : log'[i].post.score = log'[i].pre.score + CatchScore
          /\ \A i \in misses : log'[i].post.misses = log'[i].pre.misses + 1
          /\ (\E i \in 1..Len(log') : log'[i].op = "update") =>
               Len(items') = IF over THEN 0
                             ELSE Len(items) - Cardinality(outs) + Cardinality(spawns)
    ]_vars

\* In one frame an item below the miss line but inside the cart, moving down,
\* is caught, and another below the miss line is missed.
C25_Witness ==
  /\ \E i \in Calls("classify") :
       /\ log[i].kind = "caught"
       /\ log[i].item.y > (BASE_HEIGHT + MissMargin) * 720
  /\ \E j \in Calls("classify") : log[j].kind = "missed"
  /\ Calls("handleCatch") # {} /\ Calls("handleMiss") # {}

\* C26: a frame with delta >= 0 in which no item is caught or missed and the
\* game goes on moves every item in the air by vy' = vy + GRAVITY * dt,
\* x' = x + vx * dt, y' = y + vy' * dt, with dt = delta / 60 (velocities in
\* twelfths, positions in 720ths), and leaves the rest of the item alone; the
\* bonus projectile is not among the items.
C26_SemiImplicitEuler ==
  [][ \A i \in 1..Len(log') :
        ( /\ log'[i].op = "update"
          /\ log'[i].delta >= 0
          /\ \A j \in 1..Len(log') : log'[j].op \notin {"classify", "endGame"} ) =>
        /\ Len(items') >= Len(items)
        /\ \A k \in 1..Len(items) :
             items'[k] =
               [items[k] EXCEPT
                  !.vy = @ + (GRAVITY * log'[i].delta) \div 5,
                  !.x = @ + items[k].vx * log'[i].delta,
                  !.y = @ + (items[k].vy + (GRAVITY * log'[i].delta) \div 5)
                              * log'[i].delta]
        /\ \A k \in 1..Len(items') : items'[k].type \in {"screw", "magic"}
    ]_vars

\* C27: in the timer-based revision, while the game is paused (playing, the
\* ticker stopped) no step other than a restart changes the live list, so the
\* list at the resume is the list at the pause.
C27_PauseStopsSpawning ==
  [][ ( /\ timed.playing
        /\ ~timed.started
        /\ timed'.restarts = timed.restarts ) => timed'.items = timed.items ]_vars

\* C28: a step that is not a restart leaves fishUnlocked set if it was set,
\* whatever the score does; within a frame no call clears it; and every bonus
\* projectile is launched with fishUnlocked set.
C28_UnlockMonotone ==
  [][ /\ ( /\ gameState.fishUnlocked
           /\ \A i \in 1..Len(log') : log'[i].op # "restartGame" ) =>
           /\ gameState'.fishUnlocked
           /\ \A i \in 1..Len(log') : log'[i].post.fishUnlocked
      /\ \A i \in 1..Len(log') :
           /\ log'[i].pre.fishUnlocked /\ log'[i].op # "restartGame" =>
                log'[i].post.fishUnlocked
           /\ log'[i].op = "spawnFish" => log'[i].pre.fishUnlocked
    ]_vars

\* A bonus projectile is launched with the score below FISH_UNLOCK_SCORE, after
\* a penalty has taken the score down.
C28_Witness ==
  \E i \in Calls("spawnFish") :
    /\ log[i].pre.score < FISH_UNLOCK_SCORE
    /\ log[i].pre.fishUnlocked
    /\ log[i].pre.misses > 0

\* What C29 asks of a state s (a snapshot): magicCountdown lies in
\* 0..MAGIC_COUNTDOWN, and with misses > 0 and magicCountdown = 0 forceMagic is
\* set.
PityPending(s) ==
  /\ s.magicCountdown >= 0
  /\ s.magicCountdown <= MAGIC_COUNTDOWN
  /\ (s.misses > 0 /\ s.magicCountdown = 0) => s.forceMagic

\* C29: every state, and every state before and after a call, has
\* 0 <= magicCountdown <= MAGIC_COUNTDOWN and, with misses > 0 and
\* magicCountdown = 0, forceMagic set; requestMagicGuarantee runs with
\* misses > 0 in every miss event (it leaves magicCountdown at MAGIC_COUNTDOWN,
\* not at 0); and a forced Recovery spawn that is not the first of the game
\* comes after at least MAGIC_COUNTDOWN Standard catches since the one before.
C29_PityCountdown ==
  /\ [] /\ PityPending(gameState)
        /\ \A i \in 1..Len(log) : PityPending(log[i].pre) /\ PityPending(log[i].post)
        /\ \A i \in MissEvents :
             log[i].post.misses > 0 /\ log[i].post.magicCountdown # 0
  /\ [][ \A i \in 1..Len(log') :
           ( /\ log'[i].op = "spawnItem"
             /\ log'[i].kind = "forced"
             /\ Counted(log', 1, i - 1, sinceForced).spawns > 0 ) =>
           Counted(log', 1, i - 1, sinceForced).catches >= MAGIC_COUNTDOWN
       ]_vars

\* The second forced Recovery spawn of a game, made with magicCountdown = 0.
C29_Witness ==
  /\ sinceForced.spawns = 2
  /\ \E i \in Calls("spawnItem") : log[i].kind = "forced" /\ log[i].pre.magicCountdown = 0

====
